---- MODULE Spec2Model ----
(***************************************************************************)
(* A model of the binary table editors of this repository:                 *)
(*   - src/deliveroo-tracker/item_editor.py : the items.bin editor         *)
(*     (4-byte header, 236-byte records, buyable digit inside the id);     *)
(*   - src/ratelimit.py : the shop_decoded.bin editor                      *)
(*     (48-byte header, 108-byte records kept as raw blocks).              *)
(* Bytes are naturals 0..255, byte strings are sequences of bytes, Python  *)
(* str values are sequences of code points ('0' = 48, '-' = 45, ...).      *)
(* Python sequences are 0-indexed; TLA+ sequences are 1-indexed, so the    *)
(* source's index k is position k+1 here.                                  *)
(***************************************************************************)
EXTENDS Integers, Sequences, FiniteSets, TLC

VARIABLES
    \* --- _sync_buyable_digit applied to one record (SpecSync) ---
    item,          \* the record handed to _sync_buyable_digit
    before,        \* the record as it was before the latest call
    original,      \* the record as it was before the first call
    ncalls,        \* consecutive calls made so far with no mutation in between
    \* --- ItemEditor (SpecLoad, SpecEditor) ---
    pc,            \* "start" before ItemEditor.__init__, "ready" in the main loop
    disk,          \* items.bin: [exists |-> BOOLEAN, bytes |-> byte string]
    items,         \* self.items
    current_item,  \* self.current_item: 0 for None, else its position in items
    search_var,    \* self.search_var
    listbox,       \* the lines of self.listbox
    fields,        \* the texts of self.fields and self.stats_fields
    msg,           \* the messagebox call of the latest handler, "" if none
    raised,        \* the exception that left the latest handler, "" if none
    nedits,        \* form entries typed so far
    \* --- ShopEditor (SpecShopFile, SpecShop) ---
    shop_disk,     \* the files the open dialog can return: path -> byte string
    data,          \* self.data
    header,        \* self.header
    shop_items,    \* self.items of the ShopEditor
    shop_listbox,  \* the lines of its listbox
    current_index, \* self.current_index, -1 while the attribute is not set
    shop_fields,   \* the texts of its four entries
    shop_new,      \* shop_new.bin: [exists |-> BOOLEAN, bytes |-> byte string]
    shop_op,       \* the latest handler run, "" before the first
    shop_msg,      \* the messagebox call of the latest handler, "" if none
    shop_raised,   \* the exception that left the latest handler, "" if none
    shop_nedits,   \* entries typed so far
    shop_nops,     \* handlers run and entries typed so far
    shop_selected  \* where the record of the latest selection is in self.items
                   \* (its index), -1 before any selection, -2 once it has left

syncVars == <<item, before, original, ncalls>>
editorVars == <<pc, disk, items, current_item, search_var, listbox, fields,
                msg, raised, nedits>>
shopVars == <<shop_disk, data, header, shop_items, shop_listbox, current_index,
              shop_fields, shop_new, shop_op, shop_msg, shop_raised, shop_nedits,
          shop_nops, shop_selected>>
vars == <<item, before, original, ncalls,
          pc, disk, items, current_item, search_var, listbox, fields,
          msg, raised, nedits,
          shop_disk, data, header, shop_items, shop_listbox, current_index,
          shop_fields, shop_new, shop_op, shop_msg, shop_raised, shop_nedits,
          shop_nops, shop_selected>>

----------------------------------------------------------------------------
(* Python text primitives *)

Zero  == 48    \* ord('0')
One   == 49    \* ord('1')
Minus == 45    \* ord('-')
Plus  == 43    \* ord('+')

IsDigit(c) == c \in 48..57

RECURSIVE DigitsOf(_)
DigitsOf(n) == IF n < 10 THEN <<Zero + n>>
               ELSE Append(DigitsOf(n \div 10), Zero + (n % 10))

\* str(n) for an int n
str(n) == IF n < 0 THEN <<Minus>> \o DigitsOf(0 - n) ELSE DigitsOf(n)

RECURSIVE DigitsValue(_)
DigitsValue(s) == IF s = <<>> THEN 0
                  ELSE 10 * DigitsValue(SubSeq(s, 1, Len(s) - 1)) + (s[Len(s)] - Zero)

\* int(s) accepts an optional sign followed by at least one decimal digit
\* (the texts of this model hold no blanks or underscores)
IsIntText(s) ==
    LET body == IF s # <<>> /\ s[1] \in {Minus, Plus} THEN Tail(s) ELSE s
    IN  body # <<>> /\ \A i \in 1..Len(body) : IsDigit(body[i])

\* int(s) for a text int() accepts
int(s) == IF s[1] = Minus THEN 0 - DigitsValue(Tail(s))
          ELSE IF s[1] = Plus THEN DigitsValue(Tail(s))
          ELSE DigitsValue(s)

----------------------------------------------------------------------------
(* item_editor.py: _sync_buyable_digit *)

BOT_KINDS == {1, 2, 3}

\* a plausible slip: the polarity of the digit reversed
sync_buyable_digit_reversed(it) ==
    LET s_id == str(it.id)
    IN  IF Len(s_id) < 7 THEN it
        ELSE IF it.bot \notin BOT_KINDS THEN it
        ELSE [it EXCEPT !.id = int([s_id EXCEPT ![7] = IF it.buyable # 0 THEN One ELSE Zero])]

\* a plausible slip: the digit inserted at index 6 instead of replacing it
sync_buyable_digit_insert(it) ==
    LET s_id == str(it.id)
    IN  IF Len(s_id) < 7 THEN it
        ELSE IF it.bot \notin BOT_KINDS THEN it
        ELSE [it EXCEPT !.id = int(SubSeq(s_id, 1, 6)
                                   \o <<IF it.buyable # 0 THEN Zero ELSE One>>
                                   \o SubSeq(s_id, 7, Len(s_id)))]

\* a plausible slip: an off-by-one, index 5 rewritten instead of index 6
sync_buyable_digit_index5(it) ==
    LET s_id == str(it.id)
    IN  IF Len(s_id) < 7 THEN it
        ELSE IF it.bot \notin BOT_KINDS THEN it
        ELSE [it EXCEPT !.id = int([s_id EXCEPT ![6] = IF it.buyable # 0 THEN Zero ELSE One])]

\* _sync_buyable_digit(item): item["bot"] and item["buyable"] are ints in
\* every record of the program (load_items and _extract_form_values build
\* them with int), so the TypeError/ValueError branch is never taken.
sync_buyable_digit(it) ==
    LET s_id == str(it.id)
    IN  IF Len(s_id) < 7 THEN it
        ELSE IF it.bot \notin BOT_KINDS THEN it
        ELSE [it EXCEPT !.id = int([s_id EXCEPT ![7] = IF it.buyable # 0 THEN Zero ELSE One])]

----------------------------------------------------------------------------
(* item_editor.py: byte helpers *)

MEMSIZE == 236
HEADER_LEN == 4      \* bin_file.read(4) / b"\x00\x00\x00\x00"
NAME_FIELD_LEN == 31 \* pad_string's default length, block[4:35]

Min(a, b) == IF a <= b THEN a ELSE b

\* Python's s[a:b] for 0 <= a <= b
Slice(s, a, b) == SubSeq(s, a + 1, Min(b, Len(s)))

Zeros(n) == [i \in 1..n |-> 0]

\* block[a:b] = bytes on a bytearray: the slice is replaced, whatever its length
slice_assign(block, a, b, bytes) ==
    SubSeq(block, 1, a) \o bytes \o SubSeq(block, b + 1, Len(block))

RECURSIVE get_int(_)
\* int.from_bytes(byte_string, byteorder="little")
get_int(byte_string) ==
    IF byte_string = <<>> THEN 0
    ELSE byte_string[1] + 256 * get_int(Tail(byte_string))

\* int(value).to_bytes(length, "little") raises OverflowError for a negative
\* value or one that needs more than length bytes (the ints of this model
\* are below 2^31, so only a length under 4 can be too short)
to_bytes_ok(value, length) ==
    /\ value >= 0
    /\ (length = 1 => value < 256)
    /\ (length = 2 => value < 65536)

RECURSIVE to_bytes(_, _)
to_bytes(value, length) ==
    IF length = 0 THEN <<>>
    ELSE <<value % 256>> \o to_bytes(value \div 256, length - 1)

\* the position of the first zero byte of value, Len(value) + 1 if there is none
FirstNull(value) ==
    IF \E i \in 1..Len(value) : value[i] = 0
    THEN CHOOSE i \in 1..Len(value) : value[i] = 0 /\ \A j \in 1..(i - 1) : value[j] # 0
    ELSE Len(value) + 1

\* value.split(b"\x00")[0].decode("ISO-8859-1"): byte b is code point b
removenullbyte(value) == SubSeq(value, 1, FirstNull(value) - 1)

\* value.encode("ISO-8859-1") raises UnicodeEncodeError above code point 255
encode_ok(value) == \A i \in 1..Len(value) : value[i] <= 255

\* pad_string(value): b"\x00" * n is empty for n <= 0, so a value longer
\* than length comes back whole
pad_string(value, length) ==
    value \o Zeros(IF length - Len(value) > 0 THEN length - Len(value) ELSE 0)

\* the statistics, in the order of their offsets
STAT_NAMES == <<"hpp", "attmin", "attmax", "atttransmin", "atttransmax",
                "transgauge", "crit", "evade", "spectrans", "speed",
                "transbotdef", "transbotatt", "transspeed", "rangeatt", "luk">>
STAT_KEYS == { STAT_NAMES[k] : k \in 1..Len(STAT_NAMES) }
STATS_START == 58
StatIndex(name) == CHOOSE k \in 1..Len(STAT_NAMES) : STAT_NAMES[k] = name
\* offsets[name][0] in parse_stats, offsets[name] in save_bin
StatStart(name) == STATS_START + 4 * (StatIndex(name) - 1)

parse_stats(block) ==
    [name \in STAT_KEYS |-> get_int(Slice(block, StatStart(name), StatStart(name) + 4))]

----------------------------------------------------------------------------
(* item_editor.py: load_items *)

StartsWith(s, p) == Len(s) >= Len(p) /\ SubSeq(s, 1, Len(p)) = p

BotPrefix(s_id) ==
    IF StartsWith(s_id, <<One, One>>) THEN 1
    ELSE IF StartsWith(s_id, <<One, 50>>) THEN 2
    ELSE IF StartsWith(s_id, <<One, 51>>) THEN 3
    ELSE 0

\* s_id[2] or s_id[6] raises IndexError on a bot id shorter than 7 characters
block_raises(block) ==
    LET s_id == str(get_int(Slice(block, 0, 4)))
    IN  BotPrefix(s_id) # 0 /\ Len(s_id) < 7

\* the record load_items builds from one 236-byte block
parse_block(block) ==
    LET id   == get_int(Slice(block, 0, 4))
        s_id == str(id)
        bot  == BotPrefix(s_id)
    IN  [id      |-> id,
         name    |-> removenullbyte(Slice(block, 4, 35)),
         level   |-> block[36],
         buy     |-> get_int(Slice(block, 37, 41)),
         coins   |-> get_int(Slice(block, 41, 45)),
         sell    |-> get_int(Slice(block, 45, 49)),
         days    |-> get_int(Slice(block, 56, 58)),
         stats   |-> parse_stats(block),
         bot     |-> bot,
         part    |-> IF bot # 0 THEN s_id[3] - Zero ELSE 0,
         buyable |-> IF bot # 0 /\ s_id[7] = Zero THEN 1 ELSE 0]

RECURSIVE read_blocks(_, _, _)
\* the while loop of load_items from file position pos with acc read so far:
\* [items, error], error being TRUE when the loop was left by an exception
read_blocks(bytes, pos, acc) ==
    LET block == Slice(bytes, pos, pos + MEMSIZE)
    IN  IF Len(block) < MEMSIZE THEN [items |-> acc, error |-> FALSE]
        ELSE IF block_raises(block) THEN [items |-> acc, error |-> TRUE]
        ELSE read_blocks(bytes, pos + MEMSIZE, Append(acc, parse_block(block)))

\* load_items(): a missing file and any exception end in messagebox.showerror
\* and the items read so far are returned
load_items(file) ==
    IF ~file.exists THEN [items |-> <<>>, error |-> TRUE]
    ELSE read_blocks(file.bytes, Min(HEADER_LEN, Len(file.bytes)), <<>>)

----------------------------------------------------------------------------
(* ratelimit.py: parse_item, rebuild_item *)

HEADER_SIZE == 48
ITEM_SIZE == 108
NAME_OFFSET == 0
NAME_SIZE == 32
CATEGORY_OFFSET == 84
BUYABLE_OFFSET == 80
ID_OFFSET == 92

\* bytes.decode("ascii", errors="ignore"): bytes above 127 are dropped
ascii_decode(bytes) == SelectSeq(bytes, LAMBDA b : b < 128)

\* str.encode("ascii", errors="ignore"): code points above 127 are dropped
ascii_encode(text) == SelectSeq(text, LAMBDA c : c < 128)

\* struct.pack("<I", value) raises struct.error outside 0..2^32-1 (the ints
\* of this model are below 2^31)
pack_ok(value) == value >= 0

parse_item(bytes, offset) ==
    LET block == Slice(bytes, offset, offset + ITEM_SIZE)
    IN  [offset   |-> offset,
         id       |-> get_int(Slice(block, ID_OFFSET, ID_OFFSET + 4)),
         name     |-> ascii_decode(removenullbyte(
                          Slice(block, NAME_OFFSET, NAME_OFFSET + NAME_SIZE))),
         category |-> get_int(Slice(block, CATEGORY_OFFSET, CATEGORY_OFFSET + 4)),
         buyable  |-> block[BUYABLE_OFFSET + 1],
         block    |-> block]

\* rebuild_item raises struct.error when category or id cannot be packed
rebuild_ok(it) == pack_ok(it.category) /\ pack_ok(it.id)

\* a plausible slip: the buyable flag written one byte too far
rebuild_item_buyable_shifted(it) ==
    LET name_bytes == Slice(ascii_encode(it.name), 0, NAME_SIZE - 1) \o <<0>>
        b1 == slice_assign(it.block, NAME_OFFSET, NAME_OFFSET + NAME_SIZE, Zeros(NAME_SIZE))
        b2 == slice_assign(b1, NAME_OFFSET, NAME_OFFSET + Len(name_bytes), name_bytes)
        b3 == slice_assign(b2, CATEGORY_OFFSET, CATEGORY_OFFSET + 4, to_bytes(it.category, 4))
        b4 == [b3 EXCEPT ![BUYABLE_OFFSET + 2] = it.buyable % 256]
    IN  slice_assign(b4, ID_OFFSET, ID_OFFSET + 4, to_bytes(it.id, 4))

rebuild_item(it) ==
    LET name_bytes == Slice(ascii_encode(it.name), 0, NAME_SIZE - 1) \o <<0>>
        b1 == slice_assign(it.block, NAME_OFFSET, NAME_OFFSET + NAME_SIZE, Zeros(NAME_SIZE))
        b2 == slice_assign(b1, NAME_OFFSET, NAME_OFFSET + Len(name_bytes), name_bytes)
        b3 == slice_assign(b2, CATEGORY_OFFSET, CATEGORY_OFFSET + 4, to_bytes(it.category, 4))
        b4 == [b3 EXCEPT ![BUYABLE_OFFSET + 1] = it.buyable % 256]
    IN  slice_assign(b4, ID_OFFSET, ID_OFFSET + 4, to_bytes(it.id, 4))

RECURSIVE parse_items(_, _, _)
\* the for loop of load_file over range(HEADER_SIZE, len(data), ITEM_SIZE)
parse_items(bytes, offset, acc) ==
    IF offset >= Len(bytes) THEN acc
    ELSE IF Len(Slice(bytes, offset, offset + ITEM_SIZE)) < ITEM_SIZE THEN acc
    ELSE parse_items(bytes, offset + ITEM_SIZE, Append(acc, parse_item(bytes, offset)))

RECURSIVE rebuild_all(_)
\* the for loop of export, for items that all can be rebuilt
rebuild_all(its) ==
    IF its = <<>> THEN <<>> ELSE rebuild_item(its[1]) \o rebuild_all(Tail(its))

\* f"{item['id']} - {item['name']}"
shop_line(it) == str(it.id) \o <<32, 45, 32>> \o it.name

shop_lines(its) == [i \in 1..Len(its) |-> shop_line(its[i])]

\* a plausible slip: the last element removed whatever the index
remove_last(its, idx) == SubSeq(its, 1, Len(its) - 1)

\* del seq[idx] for 0 <= idx < len(seq)
remove_at(its, idx) == SubSeq(its, 1, idx) \o SubSeq(its, idx + 2, Len(its))

\* listbox.insert(idx, line) after listbox.delete(idx)
replace_line(lines, idx, line) ==
    IF idx < Len(lines) THEN [lines EXCEPT ![idx + 1] = line] ELSE Append(lines, line)

NEW_NAME == <<78, 101, 119, 73, 116, 101, 109>>    \* "NewItem"

\* the record add_item appends: a copy of the last item with a block of its own
new_item(last) ==
    [last EXCEPT !.id = last.id + 1, !.name = NEW_NAME, !.category = 0, !.buyable = 1]

NoFile == [exists |-> FALSE, bytes |-> <<>>]

SHOP_KEYS == {"id", "name", "category", "buyable"}

\* ShopEditor.__init__: no data, empty header and items, empty entries
\* (self.current_index is not set there)
ShopFresh ==
    /\ data = <<>>
    /\ header = <<>>
    /\ shop_items = <<>>
    /\ shop_listbox = <<>>
    /\ current_index = 0 - 1
    /\ shop_fields = [key \in SHOP_KEYS |-> <<>>]
    /\ shop_new = NoFile
    /\ shop_op = ""
    /\ shop_msg = ""
    /\ shop_raised = ""
    /\ shop_nedits = 0
    /\ shop_nops = 0
    /\ shop_selected = 0 - 1

\* the shop editor not running (the state of it the other programs see)
ShopIdle ==
    /\ shop_disk = <<>>
    /\ ShopFresh

----------------------------------------------------------------------------
(* item_editor.py: ItemEditor *)

FIELD_KEYS == {"id", "name", "level", "buy", "sell", "coins", "days",
               "bot", "part", "buyable"}
NUMERIC_FIELDS == FIELD_KEYS \ {"name"}
ENTRY_KEYS == FIELD_KEYS \cup STAT_KEYS

SEPARATOR == <<32, 45, 32>>    \* " - "

\* str.lower() on the code points below 256
Lower(c) == IF c \in 65..90 \/ (c \in 192..222 /\ c # 215) THEN c + 32 ELSE c
lower(s) == [i \in 1..Len(s) |-> Lower(s[i])]

\* needle in hay
Contains(hay, needle) ==
    \E k \in 0..(Len(hay) - Len(needle)) : SubSeq(hay, k + 1, k + Len(needle)) = needle

\* f"{item['id']} - {item['name']}"
list_line(it) == str(it.id) \o SEPARATOR \o it.name

RECURSIVE list_lines(_, _)
\* the lines update_list inserts for the items whose name holds search
list_lines(its, search) ==
    IF its = <<>> THEN <<>>
    ELSE (IF Contains(lower(its[1].name), search) THEN <<list_line(its[1])>> ELSE <<>>)
         \o list_lines(Tail(its), search)

\* selected.split(" - ")[0]
split_first(selected) ==
    IF Contains(selected, SEPARATOR)
    THEN LET k == CHOOSE k \in 0..(Len(selected) - 3) :
                    /\ SubSeq(selected, k + 1, k + 3) = SEPARATOR
                    /\ \A j \in 0..(k - 1) : SubSeq(selected, j + 1, j + 3) # SEPARATOR
         IN  SubSeq(selected, 1, k)
    ELSE selected

\* next(i for i in self.items if i["id"] == item_id): 0 stands for StopIteration
first_with_id(its, item_id) ==
    IF \E i \in 1..Len(its) : its[i].id = item_id
    THEN CHOOSE i \in 1..Len(its) :
            its[i].id = item_id /\ \A j \in 1..(i - 1) : its[j].id # item_id
    ELSE 0

\* what entry.insert(0, item.get(key, "")) leaves in the entry of key
entry_text(it, key) ==
    CASE key = "id"      -> str(it.id)
      [] key = "name"    -> it.name
      [] key = "level"   -> str(it.level)
      [] key = "buy"     -> str(it.buy)
      [] key = "sell"    -> str(it.sell)
      [] key = "coins"   -> str(it.coins)
      [] key = "days"    -> str(it.days)
      [] key = "bot"     -> str(it.bot)
      [] key = "part"    -> str(it.part)
      [] key = "buyable" -> str(it.buyable)
      [] OTHER           -> str(it.stats[key])

\* int(value) if value else 0
form_int(value) == IF value = <<>> THEN 0 ELSE int(value)

\* _extract_form_values returns None when int(value) raises ValueError
extract_ok(f) ==
    \A key \in NUMERIC_FIELDS \cup STAT_KEYS : f[key] = <<>> \/ IsIntText(f[key])

\* the dictionary _extract_form_values returns
extract_form_values(f) ==
    [id      |-> form_int(f["id"]),
     name    |-> f["name"],
     level   |-> form_int(f["level"]),
     buy     |-> form_int(f["buy"]),
     coins   |-> form_int(f["coins"]),
     sell    |-> form_int(f["sell"]),
     days    |-> form_int(f["days"]),
     stats   |-> [key \in STAT_KEYS |-> form_int(f[key])],
     bot     |-> form_int(f["bot"]),
     part    |-> form_int(f["part"]),
     buyable |-> form_int(f["buyable"])]

\* _apply_form_to_current: [ok, items, msg]; every key of the record is
\* assigned from the form, then _sync_buyable_digit is applied
apply_form_to_current(its, cur, f) ==
    IF cur = 0 THEN [ok |-> FALSE, items |-> its, msg |-> "showwarning"]
    ELSE IF ~extract_ok(f) THEN [ok |-> FALSE, items |-> its, msg |-> "showerror"]
    ELSE [ok |-> TRUE,
          items |-> [its EXCEPT ![cur] = sync_buyable_digit(extract_form_values(f))],
          msg |-> ""]

\* the exception building the block of one item raises, "" if none
block_error(it) ==
    IF ~to_bytes_ok(it.id, 4) THEN "OverflowError"
    ELSE IF ~encode_ok(it.name) THEN "UnicodeEncodeError"
    ELSE IF it.level \notin 0..255 THEN "ValueError"
    ELSE IF ~to_bytes_ok(it.buy, 4) \/ ~to_bytes_ok(it.coins, 4)
            \/ ~to_bytes_ok(it.sell, 4) \/ ~to_bytes_ok(it.days, 2)
            \/ \E key \in STAT_KEYS : ~to_bytes_ok(it.stats[key], 4)
         THEN "OverflowError"
    ELSE ""

RECURSIVE write_stats(_, _, _)
\* for key, start in offsets.items(): block[start:start+4] = to_bytes(stats[key])
write_stats(block, stats, k) ==
    IF k > Len(STAT_NAMES) THEN block
    ELSE write_stats(slice_assign(block, StatStart(STAT_NAMES[k]),
                                  StatStart(STAT_NAMES[k]) + 4,
                                  to_bytes(stats[STAT_NAMES[k]], 4)),
                     stats, k + 1)

\* the block save_bin writes for one item that raises nothing
build_block(it) ==
    LET b0 == Zeros(MEMSIZE)
        b1 == slice_assign(b0, 0, 4, to_bytes(it.id, 4))
        b2 == slice_assign(b1, 4, 35, pad_string(it.name, NAME_FIELD_LEN))
        b3 == [b2 EXCEPT ![36] = it.level]
        b4 == slice_assign(b3, 37, 41, to_bytes(it.buy, 4))
        b5 == slice_assign(b4, 41, 45, to_bytes(it.coins, 4))
        b6 == slice_assign(b5, 45, 49, to_bytes(it.sell, 4))
        b7 == slice_assign(b6, 56, 58, to_bytes(it.days, 2))
    IN  write_stats(b7, it.stats, 1)

RECURSIVE write_items(_, _)
\* the for loop of save_bin: [bytes, raised], the bytes written before the
\* first exception, if any
write_items(its, acc) ==
    IF its = <<>> THEN [bytes |-> acc, raised |-> ""]
    ELSE IF block_error(its[1]) # "" THEN [bytes |-> acc, raised |-> block_error(its[1])]
    ELSE write_items(Tail(its), acc \o build_block(its[1]))

EmptyForm == [key \in ENTRY_KEYS |-> <<>>]

\* no record under _sync_buyable_digit (the state of it the editors see)
SyncIdle ==
    /\ item = [id |-> 0, bot |-> 0, part |-> 0, buyable |-> 0]
    /\ before = item
    /\ original = item
    /\ ncalls = 0

\* the editor not yet started (and the state of it the other programs see)
EditorIdle ==
    /\ pc = "idle"
    /\ disk = [exists |-> FALSE, bytes |-> <<>>]
    /\ items = <<>>
    /\ current_item = 0
    /\ search_var = <<>>
    /\ listbox = <<>>
    /\ fields = EmptyForm
    /\ msg = ""
    /\ raised = ""
    /\ nedits = 0

\* ItemEditor.__init__: load_items(), empty form, update_list()
Construct ==
    /\ pc = "start"
    /\ LET loaded == load_items(disk)
       IN  /\ items' = loaded.items
           /\ msg' = IF loaded.error THEN "showerror" ELSE ""
           /\ listbox' = list_lines(loaded.items, <<>>)
    /\ pc' = "ready"
    /\ UNCHANGED <<disk, current_item, search_var, fields, raised, nedits>>
    /\ UNCHANGED <<syncVars, shopVars>>

----------------------------------------------------------------------------
(* sample items.bin files *)

MaxBlocks == 2       \* complete blocks of a sampled items.bin

Put(block, off, bytes) ==
    [i \in 1..Len(block) |->
        IF i > off /\ i <= off + Len(bytes) THEN bytes[i - off] ELSE block[i]]

\* variant 0: the id over zeros; variant 1: every named field set, a byte
\* after the name's terminator, and 0xEE in the bytes no field covers
SampleBlock(id, variant) ==
    IF variant = 0 THEN Put(Zeros(MEMSIZE), 0, to_bytes(id, 4))
    ELSE LET fill == [i \in 1..MEMSIZE |-> 238]
             s1 == Put(fill, 0, to_bytes(id, 4))
             s2 == Put(s1, 4, <<65, 98, 0, 90>> \o Zeros(27))
             s3 == Put(s2, 35, <<7>>)
             s4 == Put(s3, 37, to_bytes(1000, 4) \o to_bytes(20, 4) \o to_bytes(500, 4))
             s5 == Put(s4, 56, to_bytes(300, 2))
         IN  Put(s5, STATS_START,
                 [i \in 1..60 |-> IF (i - 1) % 4 = 0 THEN (i - 1) \div 4 + 1 ELSE 0])

LoadIds == {0, 11, 110, 1100, 1234567, 1101234560, 1101231560, 1201234567,
            1300000017, 2000000000}
TrailLens == {0, 100}
ShortLens == 0..3

SampleBlocks(ids) == { SampleBlock(id, v) : id \in ids, v \in {0, 1} }

RECURSIVE BlockSeqs(_, _)
\* the sequences of at most n blocks of bs
BlockSeqs(bs, n) ==
    IF n = 0 THEN {<<>>}
    ELSE LET shorter == BlockSeqs(bs, n - 1)
         IN  shorter \cup { Append(q, b) : q \in shorter, b \in bs }

RECURSIVE Concat(_)
Concat(q) == IF q = <<>> THEN <<>> ELSE q[1] \o Concat(Tail(q))

\* header, complete blocks and a trailing partial block of 0x11 bytes
SampleFile(q, trail) ==
    [exists |-> TRUE,
     bytes |-> Zeros(HEADER_LEN) \o Concat(q) \o [i \in 1..trail |-> 17]]

LoadFiles ==
    { SampleFile(q, t) : q \in BlockSeqs(SampleBlocks(LoadIds), MaxBlocks), t \in TrailLens }
    \cup { [exists |-> TRUE, bytes |-> Zeros(n)] : n \in ShortLens }
    \cup { [exists |-> FALSE, bytes |-> <<>>] }

----------------------------------------------------------------------------
(* SpecLoad: load_items, as ItemEditor.__init__ calls it, on sample files *)

InitLoad ==
    /\ pc = "start"
    /\ disk \in LoadFiles
    /\ items = <<>>
    /\ current_item = 0
    /\ search_var = <<>>
    /\ listbox = <<>>
    /\ fields = EmptyForm
    /\ msg = ""
    /\ raised = ""
    /\ nedits = 0
    /\ SyncIdle
    /\ ShopIdle

NextLoad == Construct

SpecLoad == InitLoad /\ [][NextLoad]_vars

\* the number of complete blocks after the header
NumBlocks(bytes) == (Len(bytes) - HEADER_LEN) \div MEMSIZE

\* the k-th complete block of the file
FileBlock(bytes, k) ==
    Slice(bytes, HEADER_LEN + (k - 1) * MEMSIZE, HEADER_LEN + k * MEMSIZE)

\* C4 as stated: every complete 236-byte block of the file is decoded to a
\* record with bot 1/2/3 for an id starting "11"/"12"/"13", part = int(s[2])
\* and buyable = 1 iff s[6] is '0', and bot = part = buyable = 0 for any
\* other id, ids of fewer than 7 digits included.
C4_DerivedFieldsDecoded ==
    (pc = "ready" /\ disk.exists /\ Len(disk.bytes) >= HEADER_LEN) =>
        \A k \in 1..NumBlocks(disk.bytes) :
            LET s == str(get_int(Slice(FileBlock(disk.bytes, k), 0, 4)))
            IN  /\ k <= Len(items)
                /\ items[k].bot = BotPrefix(s)
                /\ items[k].part = (IF BotPrefix(s) # 0 /\ Len(s) >= 3
                                    THEN s[3] - Zero ELSE 0)
                /\ items[k].buyable = (IF BotPrefix(s) # 0 /\ Len(s) >= 7 /\ s[7] = Zero
                                       THEN 1 ELSE 0)

\* C5 as stated: a file of length L >= 4 decodes to exactly floor((L-4)/236)
\* records, in file order, with no error reported, whatever the blocks hold.
C5_RecordCount ==
    (pc = "ready" /\ disk.exists /\ Len(disk.bytes) >= HEADER_LEN) =>
        /\ Len(items) = NumBlocks(disk.bytes)
        /\ msg = ""
        /\ \A k \in 1..Len(items) :
              items[k].id = get_int(Slice(FileBlock(disk.bytes, k), 0, 4))

\* C6 as stated: decoding a file shorter than 4 bytes fails with a format
\* error instead of returning normally with an empty list.
C6_ShortFileFails ==
    (pc = "ready" /\ disk.exists /\ Len(disk.bytes) < HEADER_LEN) => msg = "showerror"

----------------------------------------------------------------------------
(* SpecEditor: the ItemEditor session *)

MaxEdits == 1        \* form entries typed in one session
NameOverrun == 1     \* how far the longest typed name exceeds the name field

\* the texts typed into the entry of key
KeyTexts(key) ==
    CASE key = "id"      -> {<<>>, <<Minus, One>>}
      [] key = "name"    -> {<<97>>, <<8364>>,
                             [i \in 1..NAME_FIELD_LEN |-> 65],
                             [i \in 1..(NAME_FIELD_LEN + NameOverrun) |-> 65]}
      [] key = "level"   -> {str(300), <<120>>}
      [] key = "buyable" -> {str(2)}
      [] OTHER           -> {<<Minus, One>>}

\* the entries typed into
TypedKeys == {"id", "name", "level", "buyable", "hpp"}

SearchTexts == {<<>>, <<97>>}

EditorFiles ==
    { SampleFile(q, 0) :
        q \in { <<>>,
                <<SampleBlock(1234567, 0), SampleBlock(1201234567, 1)>> } }
    \cup { [exists |-> FALSE, bytes |-> <<>>] }

InitEditor ==
    /\ pc = "start"
    /\ disk \in EditorFiles
    /\ items = <<>>
    /\ current_item = 0
    /\ search_var = <<>>
    /\ listbox = <<>>
    /\ fields = EmptyForm
    /\ msg = ""
    /\ raised = ""
    /\ nedits = 0
    /\ SyncIdle
    /\ ShopIdle

\* a key released in the search entry: update_list
update_list ==
    /\ pc = "ready"
    /\ \E search \in SearchTexts :
          /\ search_var' = search
          /\ listbox' = list_lines(items, lower(search))
    /\ msg' = ""
    /\ raised' = ""
    /\ UNCHANGED <<pc, disk, items, current_item, fields, nedits>>
    /\ UNCHANGED <<syncVars, shopVars>>

\* a line of the listbox selected: load_editor_fields
load_editor_fields ==
    /\ pc = "ready"
    /\ \E sel \in 1..Len(listbox) :
          LET item_id == int(split_first(listbox[sel]))
              found == first_with_id(items, item_id)
          IN  IF found = 0
              THEN /\ raised' = "StopIteration"
                   /\ UNCHANGED <<current_item, fields>>
              ELSE /\ raised' = ""
                   /\ current_item' = found
                   /\ fields' = [key \in ENTRY_KEYS |-> entry_text(items[found], key)]
    /\ msg' = ""
    /\ UNCHANGED <<pc, disk, items, search_var, listbox, nedits>>
    /\ UNCHANGED <<syncVars, shopVars>>

\* the user replaces the text of one form entry
TypeEntry ==
    /\ pc = "ready"
    /\ nedits < MaxEdits
    /\ \E key \in TypedKeys : \E text \in KeyTexts(key) :
          fields' = [fields EXCEPT ![key] = text]
    /\ nedits' = nedits + 1
    /\ UNCHANGED <<pc, disk, items, current_item, search_var, listbox, msg, raised>>
    /\ UNCHANGED <<syncVars, shopVars>>

\* the button "Salvar alteracoes": save_item_changes
save_item_changes ==
    /\ pc = "ready"
    /\ LET applied == apply_form_to_current(items, current_item, fields)
       IN  /\ items' = applied.items
           /\ msg' = IF applied.ok THEN "showinfo" ELSE applied.msg
    /\ raised' = ""
    /\ UNCHANGED <<pc, disk, current_item, search_var, listbox, fields, nedits>>
    /\ UNCHANGED <<syncVars, shopVars>>

\* the button "Salvar items.bin": save_bin
save_bin ==
    /\ pc = "ready"
    /\ IF items = <<>>
       THEN /\ msg' = "showwarning"
            /\ raised' = ""
            /\ UNCHANGED <<disk, items>>
       ELSE LET applied == apply_form_to_current(items, current_item, fields)
            IN  IF current_item # 0 /\ ~applied.ok
                THEN /\ msg' = applied.msg
                     /\ raised' = ""
                     /\ UNCHANGED <<disk, items>>
                ELSE LET its == IF current_item # 0 THEN applied.items ELSE items
                         written == write_items(its, Zeros(HEADER_LEN))
                     IN  /\ items' = its
                         /\ disk' = [exists |-> TRUE, bytes |-> written.bytes]
                         /\ raised' = written.raised
                         /\ msg' = IF written.raised = "" THEN "showinfo_saved" ELSE ""
    /\ UNCHANGED <<pc, current_item, search_var, listbox, fields, nedits>>
    /\ UNCHANGED <<syncVars, shopVars>>

NextEditor ==
    \/ Construct
    \/ update_list
    \/ load_editor_fields
    \/ TypeEntry
    \/ save_item_changes
    \/ save_bin

SpecEditor == InitEditor /\ [][NextEditor]_vars

\* the block of the written file that holds record k
WrittenBlock(k) == FileBlock(disk.bytes, k)

\* C8 as stated: after save_bin has written the file, it is the 4-byte zero
\* header followed by one 236-byte block per record in list order, each
\* record's fields at their fixed offsets, whatever was typed in the form.
C8_SavedLayout ==
    msg = "showinfo_saved" =>
        /\ Len(disk.bytes) = HEADER_LEN + MEMSIZE * Len(items)
        /\ Slice(disk.bytes, 0, HEADER_LEN) = Zeros(HEADER_LEN)
        /\ \A k \in 1..Len(items) :
              LET block == WrittenBlock(k)
              IN  /\ Slice(block, 0, 4) = to_bytes(items[k].id, 4)
                  /\ Slice(block, 4, 35) = pad_string(items[k].name, NAME_FIELD_LEN)
                  /\ block[36] = items[k].level
                  /\ Slice(block, 37, 41) = to_bytes(items[k].buy, 4)
                  /\ Slice(block, 41, 45) = to_bytes(items[k].coins, 4)
                  /\ Slice(block, 45, 49) = to_bytes(items[k].sell, 4)
                  /\ Slice(block, 56, 58) = to_bytes(items[k].days, 2)
                  /\ \A key \in STAT_KEYS :
                        Slice(block, StatStart(key), StatStart(key) + 4)
                            = to_bytes(items[k].stats[key], 4)

----------------------------------------------------------------------------
(* SpecSync: _sync_buyable_digit on the records the form can build *)

MaxIdLen == 8        \* longest decimal string of a sampled id
MaxSyncCalls == 2    \* consecutive calls of _sync_buyable_digit
MaxBuyable == 2      \* sampled buyable values are -1..MaxBuyable
MaxBot == 4          \* sampled bot values are 0..MaxBot

\* leading characters of the sampled ids
IdPrefixes == { <<One, One>>, <<One, 50>>, <<One, 51>>, <<One, Zero>>,
                <<53>>, <<Minus, One, One>> }
\* the character the rest of a sampled id is filled with
IdFills == {Zero, One, 55}

FilledText(prefix, fill, len) ==
    [i \in 1..len |-> IF i <= Len(prefix) THEN prefix[i] ELSE fill]

SyncIds == { int(FilledText(p, f, n)) :
               p \in IdPrefixes, f \in IdFills, n \in 2..MaxIdLen }
             \cup {0, 5}

SyncRecords == [id : SyncIds, bot : 0..MaxBot, part : {0, 3},
                buyable : (0 - 1)..MaxBuyable]

InitSync ==
    /\ item \in SyncRecords
    /\ before = item
    /\ original = item
    /\ ncalls = 0
    /\ EditorIdle
    /\ ShopIdle

\* one call _sync_buyable_digit(item)
SyncBuyableDigit ==
    /\ ncalls < MaxSyncCalls
    /\ before' = item
    /\ item' = sync_buyable_digit(item)
    /\ ncalls' = ncalls + 1
    /\ UNCHANGED original
    /\ UNCHANGED <<editorVars, shopVars>>

NextSync == SyncBuyableDigit

SpecSync == InitSync /\ [][NextSync]_vars

\* the character at index 6 of str(id) exists and is c
DigitAt6Is(id, c) == Len(str(id)) >= 7 /\ str(id)[7] = c

\* C1 as stated: for every record with bot in {1,2,3}, whatever its id and
\* its integer buyable, after _sync_buyable_digit buyable = 1 iff the
\* character at index 6 of str(id) is '0'.
C1_AsStated ==
    (ncalls >= 1 /\ item.bot \in BOT_KINDS)
        => ((item.buyable = 1) <=> DigitAt6Is(item.id, Zero))

\* C1 amended: for every record with bot in {1,2,3} whose str(id) has at
\* least 7 characters, after _sync_buyable_digit the character at index 6 is
\* '0' when buyable is nonzero and '1' when buyable is 0 (so for buyable in
\* {0,1}: buyable = 1 iff that character is '0'); a shorter id is left as
\* it was.
C1_BuyableDigitConsistent ==
    (ncalls >= 1 /\ item.bot \in BOT_KINDS) =>
        IF Len(str(item.id)) >= 7
        THEN /\ (item.buyable # 0) <=> DigitAt6Is(item.id, Zero)
             /\ (item.buyable = 0) <=> DigitAt6Is(item.id, One)
        ELSE item.id = before.id

\* C1 witness: a bot record with buyable = 1 whose digit the call rewrote to '0'
C1_Witness ==
    /\ ncalls = 1
    /\ item.bot = 2 /\ item.buyable = 1
    /\ DigitAt6Is(before.id, 55)
    /\ DigitAt6Is(item.id, Zero)

\* C2: _sync_buyable_digit changes at most the character at index 6 of
\* str(id): the length of str(id) and every other character are kept, no
\* other field changes, and the id is unchanged when bot is not in {1,2,3}
\* or str(id) has fewer than 7 characters.
C2_OnlyDigit6Changes ==
    ncalls >= 1 =>
        LET a == str(before.id)
            b == str(item.id)
        IN  /\ Len(a) = Len(b)
            /\ \A i \in 1..Len(a) : i # 7 => a[i] = b[i]
            /\ [item EXCEPT !.id = before.id] = before
            /\ (before.bot \notin BOT_KINDS \/ Len(a) < 7) => item.id = before.id

\* C2 witness: a call that rewrote the digit of an id longer than 7 characters
C2_Witness ==
    /\ ncalls = 1
    /\ before.buyable = 0
    /\ Len(str(before.id)) = 8
    /\ DigitAt6Is(before.id, Zero)
    /\ DigitAt6Is(item.id, One)

\* C3: _sync_buyable_digit is idempotent: a second call right after the
\* first leaves the whole record as the first call left it.
C3_Idempotent ==
    ncalls >= 2 => item = before

\* C3 witness: two calls in a row, the first of which changed the id
C3_Witness ==
    /\ ncalls = 2
    /\ original.id # item.id
    /\ item.bot \in BOT_KINDS

----------------------------------------------------------------------------
(* ratelimit.py: ShopEditor *)

MaxShopItems == 4    \* add_item is not taken beyond this many items
MaxShopEdits == 1    \* entries typed in one session
MaxShopOps == 6      \* handlers run and entries typed in one session

\* one more step of the session
ShopStep == shop_nops < MaxShopOps /\ shop_nops' = shop_nops + 1

\* self.items = [] followed by the appends of load_file: every record of the
\* old list, the selected one included, is dropped from self.items
left_behind(sel) == IF sel >= 0 THEN 0 - 2 ELSE sel

\* del self.items[idx]: the record at idx leaves the list and every later
\* record moves one index down
after_removal(sel, idx) ==
    IF sel = idx THEN 0 - 2
    ELSE IF sel > idx THEN sel - 1
    ELSE sel

\* the button "Carregar shop_decoded.bin": load_file; the dialog returns a
\* path of shop_disk, or "" when it is cancelled
load_file ==
    /\ ShopStep
    /\ \E path \in DOMAIN shop_disk \cup {""} :
          IF path = ""
          THEN /\ shop_msg' = ""
               /\ UNCHANGED <<data, header, shop_items, shop_listbox, shop_selected>>
          ELSE /\ data' = shop_disk[path]
               /\ IF Len(shop_disk[path]) < HEADER_SIZE
                  THEN /\ shop_msg' = "showerror"
                       /\ UNCHANGED <<header, shop_items, shop_listbox, shop_selected>>
                  ELSE LET its == parse_items(shop_disk[path], HEADER_SIZE, <<>>)
                       IN  /\ header' = Slice(shop_disk[path], 0, HEADER_SIZE)
                           /\ shop_items' = its
                           /\ shop_listbox' = shop_lines(its)
                           /\ shop_msg' = "showinfo"
                           /\ shop_selected' = left_behind(shop_selected)
    /\ shop_op' = "load_file"
    /\ shop_raised' = ""
    /\ UNCHANGED <<shop_disk, current_index, shop_fields, shop_new, shop_nedits>>
    /\ UNCHANGED <<syncVars, editorVars>>

\* a line of the listbox selected: load_item
load_item ==
    /\ ShopStep
    /\ \E idx \in 0..(Len(shop_listbox) - 1) :
          IF idx >= Len(shop_items)
          THEN /\ shop_raised' = "IndexError"
               /\ UNCHANGED <<shop_fields, current_index, shop_selected>>
          ELSE LET it == shop_items[idx + 1]
               IN  /\ shop_fields' = [key \in SHOP_KEYS |->
                                        CASE key = "id"       -> str(it.id)
                                          [] key = "name"     -> it.name
                                          [] key = "category" -> str(it.category)
                                          [] key = "buyable"  -> str(it.buyable)]
                   /\ current_index' = idx
                   /\ shop_selected' = idx
                   /\ shop_raised' = ""
    /\ shop_op' = "load_item"
    /\ shop_msg' = ""
    /\ UNCHANGED <<shop_disk, data, header, shop_items, shop_listbox, shop_new, shop_nedits>>
    /\ UNCHANGED <<syncVars, editorVars>>

\* the texts typed into the entry of key
ShopTexts(key) ==
    CASE key = "name"     -> {<<90, 233>>, [i \in 1..NAME_SIZE |-> 66]}
      [] key = "category" -> {str(65536), <<Minus, One>>, <<120>>}
      [] key = "buyable"  -> {str(300), <<>>}
      [] OTHER            -> {str(9)}

\* the user replaces the text of one entry
TypeShopEntry ==
    /\ ShopStep
    /\ shop_nedits < MaxShopEdits
    /\ \E key \in SHOP_KEYS : \E text \in ShopTexts(key) :
          shop_fields' = [shop_fields EXCEPT ![key] = text]
    /\ shop_nedits' = shop_nedits + 1
    /\ shop_op' = "type"
    /\ UNCHANGED <<shop_disk, data, header, shop_items, shop_listbox, current_index,
                   shop_new, shop_msg, shop_raised, shop_selected>>
    /\ UNCHANGED <<syncVars, editorVars>>

\* the button "Salvar alteracoes": save_changes; the fields are assigned one
\* by one, so an int() that raises leaves the earlier ones assigned
save_changes ==
    /\ ShopStep
    /\ shop_op' = "save_changes"
    /\ IF current_index < 0
       THEN /\ shop_raised' = "AttributeError"
            /\ UNCHANGED <<shop_items, shop_listbox>>
       ELSE IF current_index >= Len(shop_items)
       THEN /\ shop_raised' = "IndexError"
            /\ UNCHANGED <<shop_items, shop_listbox>>
       ELSE LET k == current_index + 1
                named == [shop_items EXCEPT ![k].name = shop_fields["name"]]
            IN  IF ~IsIntText(shop_fields["category"])
                THEN /\ shop_raised' = "ValueError"
                     /\ shop_items' = named
                     /\ UNCHANGED shop_listbox
                ELSE IF ~IsIntText(shop_fields["buyable"])
                THEN /\ shop_raised' = "ValueError"
                     /\ shop_items' = [named EXCEPT ![k].category = int(shop_fields["category"])]
                     /\ UNCHANGED shop_listbox
                ELSE /\ shop_raised' = ""
                     /\ shop_items' = [named EXCEPT
                                         ![k].category = int(shop_fields["category"]),
                                         ![k].buyable = int(shop_fields["buyable"])]
                     /\ shop_listbox' = replace_line(shop_listbox, current_index,
                                                     shop_line(shop_items'[k]))
    /\ shop_msg' = IF shop_raised' = "" THEN "showinfo" ELSE ""
    /\ UNCHANGED <<shop_disk, data, header, current_index, shop_fields, shop_new, shop_nedits>>
    /\ UNCHANGED shop_selected
    /\ UNCHANGED <<syncVars, editorVars>>

\* the button "Adicionar novo item": add_item
add_item ==
    /\ ShopStep
    /\ Len(shop_items) < MaxShopItems
    /\ shop_op' = "add_item"
    /\ IF shop_items = <<>>
       THEN /\ shop_raised' = "IndexError"
            /\ shop_msg' = ""
            /\ UNCHANGED <<shop_items, shop_listbox>>
       ELSE LET new == new_item(shop_items[Len(shop_items)])
            IN  /\ shop_items' = Append(shop_items, new)
                /\ shop_listbox' = Append(shop_listbox, shop_line(new))
                /\ shop_raised' = ""
                /\ shop_msg' = "showinfo"
    /\ UNCHANGED <<shop_disk, data, header, current_index, shop_fields, shop_new, shop_nedits>>
    /\ UNCHANGED shop_selected
    /\ UNCHANGED <<syncVars, editorVars>>

\* the button "Remover item": remove_item
remove_item ==
    /\ ShopStep
    /\ shop_op' = "remove_item"
    /\ IF current_index < 0
       THEN /\ shop_raised' = "AttributeError"
            /\ shop_msg' = ""
            /\ UNCHANGED <<shop_items, shop_listbox>>
       ELSE IF current_index >= Len(shop_items)
       THEN /\ shop_raised' = "IndexError"
            /\ shop_msg' = ""
            /\ UNCHANGED <<shop_items, shop_listbox>>
       ELSE /\ shop_items' = remove_at(shop_items, current_index)
            /\ shop_listbox' = remove_at(shop_listbox, current_index)
            /\ shop_raised' = ""
            /\ shop_msg' = "showinfo"
    /\ shop_selected' = IF shop_raised' = "" THEN after_removal(shop_selected, current_index)
                        ELSE shop_selected
    /\ UNCHANGED <<shop_disk, data, header, current_index, shop_fields, shop_new, shop_nedits>>
    /\ UNCHANGED <<syncVars, editorVars>>

\* the button "Salvar shop_new.bin": export; the output is built before the
\* file is opened, so an item that cannot be rebuilt leaves the file alone
export ==
    /\ ShopStep
    /\ shop_op' = "export"
    /\ IF \E i \in 1..Len(shop_items) : ~rebuild_ok(shop_items[i])
       THEN /\ shop_raised' = "struct.error"
            /\ shop_msg' = ""
            /\ UNCHANGED shop_new
       ELSE /\ shop_new' = [exists |-> TRUE, bytes |-> header \o rebuild_all(shop_items)]
            /\ shop_raised' = ""
            /\ shop_msg' = "showinfo"
    /\ UNCHANGED <<shop_disk, data, header, shop_items, shop_listbox, current_index,
                   shop_fields, shop_nedits, shop_selected>>
    /\ UNCHANGED <<syncVars, editorVars>>

----------------------------------------------------------------------------
(* sample shop_decoded.bin files *)

MaxShopRecs == 2     \* complete records of a sampled shop file (SpecShopFile)

\* the 32-byte name field: empty; "Ab"; "Ab" with a byte after the
\* terminator; "A", 0xC8, "b"; 32 bytes with no terminator
NameKinds == 0..4
NameField(kind) ==
    CASE kind = 0 -> Zeros(NAME_SIZE)
      [] kind = 1 -> <<65, 98>> \o Zeros(NAME_SIZE - 2)
      [] kind = 2 -> <<65, 98, 0, 90>> \o Zeros(NAME_SIZE - 4)
      [] kind = 3 -> <<65, 200, 98>> \o Zeros(NAME_SIZE - 3)
      [] kind = 4 -> [i \in 1..NAME_SIZE |-> 67]

\* variant 0: zeros around the name and id 5; variant 1: 0xEE in the bytes no
\* field covers, buyable 0x71, category 0x00020000, id 1000
ShopBlock(kind, variant) ==
    IF variant = 0
    THEN Put(Put(Zeros(ITEM_SIZE), NAME_OFFSET, NameField(kind)), ID_OFFSET, to_bytes(5, 4))
    ELSE LET fill == [i \in 1..ITEM_SIZE |-> 238]
             s1 == Put(fill, NAME_OFFSET, NameField(kind))
             s2 == Put(s1, BUYABLE_OFFSET, <<113>>)
             s3 == Put(s2, CATEGORY_OFFSET, <<0, 0, 2, 0>>)
         IN  Put(s3, ID_OFFSET, to_bytes(1000, 4))

ShopBlocks == { ShopBlock(k, v) : k \in NameKinds, v \in {0, 1} }

ShopHeaders == { Zeros(HEADER_SIZE), [i \in 1..HEADER_SIZE |-> i] }

ShopCodecFiles ==
    { h \o Concat(q) \o [i \in 1..t |-> 17] :
        h \in ShopHeaders, q \in BlockSeqs(ShopBlocks, MaxShopRecs), t \in {0, 50} }
    \cup { Zeros(10) }

ShopGuiFiles ==
    { Zeros(10),
      Zeros(HEADER_SIZE),
      [i \in 1..HEADER_SIZE |-> i]
         \o ShopBlock(1, 1) \o ShopBlock(3, 0) \o ShopBlock(2, 1) }

\* the file behind the second path of the dialog
OtherShopFile == Zeros(HEADER_SIZE) \o ShopBlock(4, 1)

ShopPaths == {"shop_decoded.bin", "other.bin"}

----------------------------------------------------------------------------
(* SpecShopFile: load_file and export on sample files *)

InitShopFile ==
    /\ shop_disk \in [{"shop_decoded.bin"} -> ShopCodecFiles]
    /\ ShopFresh
    /\ SyncIdle
    /\ EditorIdle

NextShopFile ==
    \/ load_file
    \/ export

SpecShopFile == InitShopFile /\ [][NextShopFile]_vars

\* the input is a 48-byte header followed by a whole number of 108-byte records
WholeShopFile(bytes) ==
    Len(bytes) >= HEADER_SIZE /\ (Len(bytes) - HEADER_SIZE) % ITEM_SIZE = 0

\* header and items are as load_file left them: no field was mutated
Unmutated ==
    /\ header = Slice(data, 0, HEADER_SIZE)
    /\ shop_items = parse_items(data, HEADER_SIZE, <<>>)

\* an export of the loaded file has just succeeded
ExportedLoaded ==
    /\ shop_op = "export" /\ shop_raised = ""
    /\ WholeShopFile(data)
    /\ Unmutated

\* C7 as stated: for every 48-byte header followed by whole 108-byte records,
\* load_file then export with no field mutated writes exactly the input.
C7_AsStated == ExportedLoaded => shop_new.bytes = data

\* a name field that is ASCII bytes, then a zero byte, then only zero bytes
NameClean(field) ==
    LET n == FirstNull(field)
    IN  /\ n <= Len(field)
        /\ \A i \in 1..(n - 1) : field[i] < 128
        /\ \A i \in (n + 1)..Len(field) : field[i] = 0

\* the name field of the record that holds byte i (1-indexed) of the file
NameFieldOf(bytes, i) ==
    LET start == i - 1 - ((i - 1 - HEADER_SIZE) % ITEM_SIZE)
    IN  Slice(bytes, start + NAME_OFFSET, start + NAME_OFFSET + NAME_SIZE)

InNameField(i) ==
    i > HEADER_SIZE /\ (i - 1 - HEADER_SIZE) % ITEM_SIZE \in NAME_OFFSET..(NAME_OFFSET + NAME_SIZE - 1)

\* C7 amended: load_file then export with no field mutated writes a file of
\* the input's length that agrees with the input at every byte, except inside
\* the 32-byte name field of a record whose name field is not a run of ASCII
\* bytes followed by a zero byte and only zero bytes; so an input whose name
\* fields all have that form round-trips byte for byte.
C7_RoundTrip ==
    ExportedLoaded =>
        /\ Len(shop_new.bytes) = Len(data)
        /\ \A i \in 1..Len(data) :
              \/ shop_new.bytes[i] = data[i]
              \/ InNameField(i) /\ ~NameClean(NameFieldOf(data, i))

\* C7 witness: a file of two records with clean name fields, one of them
\* named, written back byte for byte over a header that is not all zero
C7_Witness ==
    /\ ExportedLoaded
    /\ Len(shop_items) = 2
    /\ shop_items[1].name = <<65, 98>>
    /\ shop_items[1].buyable = 113
    /\ header[1] = 1
    /\ shop_new.bytes = data

(* SpecShop: the ShopEditor session *)

InitShop ==
    /\ \E f \in ShopGuiFiles :
          shop_disk = [path \in ShopPaths |->
                         IF path = "shop_decoded.bin" THEN f ELSE OtherShopFile]
    /\ ShopFresh
    /\ SyncIdle
    /\ EditorIdle

NextShop ==
    \/ load_file
    \/ load_item
    \/ TypeShopEntry
    \/ save_changes
    \/ add_item
    \/ remove_item
    \/ export

SpecShop == InitShop /\ [][NextShop]_vars

\* C9 as stated: in any reachable table state add_item appends exactly one
\* record, a copy of the last one's raw block with id + 1, the default name,
\* category 0 and buyable 1, leaves the earlier records as they were, and
\* the table can still be exported.
C9_AddItemAppends ==
    [][shop_op' = "add_item" =>
        /\ shop_items # <<>>
        /\ shop_raised' = ""
        /\ Len(shop_items') = Len(shop_items) + 1
        /\ SubSeq(shop_items', 1, Len(shop_items)) = shop_items
        /\ LET last == shop_items[Len(shop_items)]
               new  == shop_items'[Len(shop_items')]
           IN  /\ new.block = last.block
               /\ new.id = last.id + 1
               /\ new.name = NEW_NAME
               /\ new.category = 0
               /\ new.buyable = 1
        /\ \A i \in 1..Len(shop_items') : rebuild_ok(shop_items'[i])
    ]_vars

\* C10: remove_item with current_index past the end of items raises
\* IndexError and leaves the table unchanged; with current_index in range it
\* removes exactly that record and keeps the others and their order; and a
\* successful export is the header followed by the rebuilt blocks of the
\* items in list order.
C10_RemoveItem ==
    /\ [][(shop_op' = "remove_item" /\ current_index >= 0) =>
            IF current_index >= Len(shop_items)
            THEN /\ shop_raised' = "IndexError"
                 /\ shop_items' = shop_items
                 /\ shop_listbox' = shop_listbox
                 /\ header' = header
            ELSE /\ shop_raised' = ""
                 /\ Len(shop_items') = Len(shop_items) - 1
                 /\ \A i \in 1..Len(shop_items') :
                       shop_items'[i] = shop_items[IF i <= current_index THEN i ELSE i + 1]
                 /\ header' = header
         ]_vars
    /\ [](shop_op = "export" /\ shop_raised = "" =>
            /\ Len(shop_new.bytes) = Len(header) + ITEM_SIZE * Len(shop_items)
            /\ Slice(shop_new.bytes, 0, Len(header)) = header
            /\ \A k \in 1..Len(shop_items) :
                  Slice(shop_new.bytes, Len(header) + ITEM_SIZE * (k - 1),
                        Len(header) + ITEM_SIZE * k) = rebuild_item(shop_items[k]))

\* C10 witness: the middle one of three loaded records was removed, the
\* first and the third remain in that order, and the export that followed
\* holds their two blocks
C10_Witness ==
    /\ shop_op = "export" /\ shop_raised = ""
    /\ current_index = 1
    /\ Len(shop_items) = 2
    /\ shop_items[1].offset = HEADER_SIZE
    /\ shop_items[2].offset = HEADER_SIZE + 2 * ITEM_SIZE
    /\ Len(shop_new.bytes) = HEADER_SIZE + 2 * ITEM_SIZE

\* a state in which remove_item has just failed on a stale index
C10_StaleIndexReached ==
    /\ shop_op = "remove_item" /\ shop_raised = "IndexError"
    /\ current_index >= Len(shop_items)

\* self.current_index exists, is an index into self.items, and the record at
\* that index is the one the user selected last
IndexOnSelection ==
    /\ current_index >= 0
    /\ current_index < Len(shop_items)
    /\ shop_selected = current_index

\* C11 as stated: whenever save_changes or remove_item acts, current_index
\* is defined, is a valid index into items and designates the record the
\* user most recently selected; and once a selection has been made, no
\* remove_item and no load_file leaves current_index on a different record
\* or past the end of the list.
C11_CurrentIndexValid ==
    /\ [][shop_op' \in {"save_changes", "remove_item"} => IndexOnSelection]_vars
    /\ [][(shop_op' \in {"remove_item", "load_file"} /\ current_index' >= 0)
            => IndexOnSelection']_vars

\* C11, the case the code gets wrong without raising: remove_item has just
\* deleted a record the user never selected (the selected one was removed
\* by the press before, and its successor moved to the same index)
C11_WrongRecordRemoved ==
    /\ shop_op = "remove_item" /\ shop_raised = ""
    /\ shop_selected = 0 - 2
    /\ current_index = 0
    /\ Len(shop_items) = 1
    /\ shop_items[1].offset = HEADER_SIZE + 2 * ITEM_SIZE

====
